---- MODULE Spec2Model ----
(***************************************************************************)
(* Purchase ledger of the CRM backend: the Sequelize models Customer,      *)
(* Purchase and PurchaseItem with their lifecycle hooks.                   *)
(*                                                                         *)
(* Money held in the database is counted in cents (DECIMAL(.,2) columns).  *)
(* The item hooks compute in floating point before the value is stored, so *)
(* an item instance in memory holds discount_amount and subtotal in        *)
(* hundredths of a cent; the store rounds them to cents.                   *)
(*                                                                         *)
(* Every await of the code (a query) is one step of a request; the         *)
(* synchronous JavaScript between two awaits belongs to the step of the    *)
(* query that follows it.                                                  *)
(***************************************************************************)
EXTENDS Integers, FiniteSets, Sequences, TLC

\* ------------------------------------------------------------------ bounds
MaxPurchases == 1
MaxItems == 1
NumCustomers == 1

\* ---------------------------------------------------------- input domains
Quantities == {1, 2}
UnitPrices == {4}
Percentages == {0, 50}
SuppliedDiscounts == {0, 5}
TaxAmounts == {0, 1}
DiscountAmounts == {0, 2}
PurchaseDates == {1, 2}
Notes == {1}
NoNotes == 0
\* Values the item validators reject.
BadQuantities == {0, 1000000}
BadUnitPrices == {-1}
BadPercentages == {-1, 101}
\* Purchase numbers: <<"INV", n>> supplied by the caller, <<"PUR", ts, rnd>>
\* generated from Date.now() and Math.random().
SuppliedNumbers == {<<"INV", 1>>}
NoNumber == <<>>
Timestamps == {1}
Randoms == {0, 1}
NoDate == 0
NoId == 0
\* Products 1 and 2 exist; variant 1 (of product 1) exists, variant 2 does not.
ProductIds == {1, 2}
VariantIds == {1, 2}
\* newStock as it arrives in the JSON body: a number, a number with a
\* fraction (<<"frac", 1, 5>> is 1.5) or a string that is not a number.
StockInputs == {<<"num", 2>>, <<"num", -1>>, <<"frac", 1, 5>>, <<"str", "abc">>}
MaxUpdates == 2

CustomerIds == 1..NumCustomers
\* The id of a customer request: not positive (0), a customer's, or one past
\* the last customer.
RequestIds == 0..(NumCustomers + 1)
\* name and phone of a customer request's body; NoName and NoPhone: absent.
Names == {1, 2}
NoName == 0
Phones == 1..(NumCustomers + 1)
BadPhones == {-1}
NoPhone == 0
\* limit of the purchase history query: the default and one above the cap
Limits == {10, 51}
MaxLimit == 50
Slots == {1, 2}

VARIABLES decimalsAsStrings, customers, purchases, items, variants,
          nextPurchaseId, nextItemId, req

vars == <<decimalsAsStrings, customers, purchases, items, variants,
          nextPurchaseId, nextItemId, req>>

\* ------------------------------------------------------------ column types
\* DECIMAL(10,2) / DECIMAL(12,2): a value in hundredths of a cent is stored
\* rounded to the nearest cent, half away from zero.
RoundToCents(cc) ==
    IF cc >= 0 THEN (cc + 50) \div 100 ELSE -((-cc + 50) \div 100)

ToMemory(cents) == cents * 100

MinQuantity == 1
MaxQuantity == 999999
MaxPercentage == 100

PurchaseDecimals == {"total_amount", "discount_amount", "tax_amount", "final_amount"}
ItemDecimals == {"unit_price", "discount_percentage", "discount_amount", "subtotal"}
CustomerDecimals == {"totalSpent"}

\* ------------------------------------------- Sequelize instances in memory
\* vals: dataValues; strs: the attributes that still hold the string the
\* driver returned for a DECIMAL column; changed: the changed() set;
\* prev: _previousDataValues.
Load(row, decimals) ==
    [vals |-> row,
     strs |-> IF decimalsAsStrings THEN decimals ELSE {},
     changed |-> {},
     prev |-> row]

\* instance.set(values): an attribute becomes changed when the new value is
\* not equal to the one held (a number never equals a string).
SetAll(inst, values) ==
    LET chg == {k \in DOMAIN values : k \in inst.strs \/ inst.vals[k] # values[k]}
    IN [vals |-> [k \in DOMAIN inst.vals |->
                     IF k \in DOMAIN values THEN values[k] ELSE inst.vals[k]],
        strs |-> inst.strs \ DOMAIN values,
        changed |-> inst.changed \cup chg,
        prev |-> [k \in DOMAIN inst.prev |->
                     IF k \in chg THEN inst.vals[k] ELSE inst.prev[k]]]

\* ------------------------------------------------------------ Customer model
CustomerFieldValid(k, v) ==
    CASE k = "totalPurchases" -> v >= 0
      [] k = "totalSpent" -> v >= 0
      [] k = "name" -> v # NoName
      [] k = "phone" -> v # NoPhone /\ v \notin BadPhones
      [] OTHER -> TRUE

\* Customer.beforeUpdate only sanitizes phone, email and name.
CustomerBeforeUpdate(inst) == inst

NewCustomer == [totalPurchases |-> 0, totalSpent |-> 0, lastPurchaseDate |-> NoDate]

\* The row of customer c: the statistics with the profile columns. Of the
\* profile, name stands for the columns without a uniqueness rule and phone
\* for those with one (phone, email); isActive is the soft-delete flag.
CustomerRow(stats, c) ==
    [totalPurchases |-> stats.totalPurchases, totalSpent |-> stats.totalSpent,
     lastPurchaseDate |-> stats.lastPurchaseDate,
     isActive |-> TRUE, name |-> 1, phone |-> c]

\* Customer.findOne({where: {id}}): a lookup that does not look at isActive.
AnyCustomer(tbl, id) == id \in DOMAIN tbl

\* Customer.findOne({where: {id, isActive: true}})
ActiveCustomer(tbl, id) == id \in DOMAIN tbl /\ tbl[id].isActive

\* Customer.findByPhone(phone): an active customer with the phone
ActiveWithPhone(tbl, phone) == {c \in DOMAIN tbl : tbl[c].isActive /\ tbl[c].phone = phone}

\* The values of updateCustomer with the statistics reset along.
UpdateCustomerValuesWithStats(customer, body) ==
    [name |-> IF body.name # NoName THEN body.name ELSE customer.name,
     phone |-> IF body.phone # NoPhone THEN body.phone ELSE customer.phone,
     totalPurchases |-> 0, totalSpent |-> 0]

\* The values updateCustomer hands to customer.update: name || customer.name,
\* phone || customer.phone, ...
UpdateCustomerValues(customer, body) ==
    [name |-> IF body.name # NoName THEN body.name ELSE customer.name,
     phone |-> IF body.phone # NoPhone THEN body.phone ELSE customer.phone]

\* ------------------------------------------------------------ Purchase model
PurchaseFieldValid(k, v) ==
    CASE k \in PurchaseDecimals -> v >= 0
      [] k = "purchase_number" -> v # NoNumber
      [] OTHER -> TRUE

PurchaseFinalAmount(total, tax, discount) == total + tax - discount

\* `PUR-${timestamp}-${random}`
GeneratedNumber(timestamp, random) == <<"PUR", timestamp, random>>

\* Purchase.beforeCreate
PurchaseBeforeCreate(p, timestamp, random) ==
    [p EXCEPT !.purchase_number =
                  IF @ = NoNumber THEN GeneratedNumber(timestamp, random) ELSE @,
              !.final_amount =
                  PurchaseFinalAmount(p.total_amount, p.tax_amount, p.discount_amount)]

\* The unique index on purchase_number one without the column's unique: true
\* would have: none.
NumberTakenNoIndex(tbl, number) == FALSE

\* purchase_number is unique: an INSERT of a number a row already has fails.
NumberTaken(tbl, number) == \E p \in DOMAIN tbl : tbl[p].purchase_number = number

\* The hook with changed('discount_amount') left out of its condition.
PurchaseBeforeUpdateNoDiscount(inst) ==
    IF inst.changed \cap {"total_amount", "tax_amount"} # {}
    THEN SetAll(inst, [final_amount |->
             PurchaseFinalAmount(inst.vals.total_amount, inst.vals.tax_amount,
                                 inst.vals.discount_amount)])
    ELSE inst

PurchaseBeforeUpdate(inst) ==
    IF inst.changed \cap {"total_amount", "tax_amount", "discount_amount"} # {}
    THEN SetAll(inst, [final_amount |->
             PurchaseFinalAmount(inst.vals.total_amount, inst.vals.tax_amount,
                                 inst.vals.discount_amount)])
    ELSE inst

\* The hook keeping the later of the two dates.
AfterCreateCustomerValuesLatestDate(customer, final, date) ==
    [totalPurchases |-> customer.totalPurchases + 1,
     totalSpent |-> customer.totalSpent + final,
     lastPurchaseDate |-> IF date > customer.lastPurchaseDate
                          THEN date ELSE customer.lastPurchaseDate]

\* Purchase.afterCreate: the values handed to customer.update.
AfterCreateCustomerValues(customer, final, date) ==
    [totalPurchases |-> customer.totalPurchases + 1,
     totalSpent |-> customer.totalSpent + final,
     lastPurchaseDate |-> date]

\* The hook counting the rewrite as a purchase.
AfterUpdateCustomerValuesCounting(customer, difference) ==
    [totalSpent |-> customer.totalSpent + difference,
     totalPurchases |-> customer.totalPurchases + 1]

\* Purchase.afterUpdate: the values handed to customer.update.
AfterUpdateCustomerValues(customer, difference) ==
    [totalSpent |-> customer.totalSpent + difference]

\* ------------------------------------------------------ ProductVariant model
\* stock: INTEGER, defaultValue 0, no validator.
NewVariant(product) == [product_id |-> product, stock |-> 0]

\* -------------------------------------------------------- PurchaseItem model
\* The validators without the bounds of quantity.
ItemFieldValidAnyQuantity(k, v) ==
    CASE k = "unit_price" -> v >= 0
      [] k = "discount_percentage" -> v >= 0 /\ v <= MaxPercentage
      [] k = "discount_amount" -> v >= 0
      [] k = "subtotal" -> v >= 0
      [] OTHER -> TRUE

ItemFieldValid(k, v) ==
    CASE k = "quantity" -> v >= MinQuantity /\ v <= MaxQuantity
      [] k = "unit_price" -> v >= 0
      [] k = "discount_percentage" -> v >= 0 /\ v <= MaxPercentage
      [] k = "discount_amount" -> v >= 0
      [] k = "subtotal" -> v >= 0
      [] OTHER -> TRUE

\* The percentage taken of one piece only.
ItemDiscountAmountPerPiece(price, qty, pct) == price * pct

\* unit_price * quantity * discount_percentage / 100, in hundredths of a cent
ItemDiscountAmount(price, qty, pct) == price * qty * pct

\* unit_price * quantity - discount_amount, in hundredths of a cent
ItemSubtotal(price, qty, discountCC) == ToMemory(price * qty) - discountCC

\* PurchaseItem.beforeCreate on the built instance (amounts in memory units).
ItemBeforeCreate(it) ==
    LET da == IF it.discount_percentage > 0
              THEN ItemDiscountAmount(it.unit_price, it.quantity, it.discount_percentage)
              ELSE it.discount_amount
    IN [it EXCEPT !.discount_amount = da,
                  !.subtotal = ItemSubtotal(it.unit_price, it.quantity, da)]

ItemBeforeUpdate(inst) ==
    IF inst.changed \cap {"unit_price", "quantity", "discount_percentage"} # {}
    THEN LET v == inst.vals
             da == IF v.discount_percentage > 0
                   THEN ItemDiscountAmount(v.unit_price, v.quantity, v.discount_percentage)
                   ELSE 0
             i1 == SetAll(inst, [discount_amount |-> da])
         IN SetAll(i1, [subtotal |-> ItemSubtotal(v.unit_price, v.quantity, da)])
    ELSE inst

ItemStore(k, v) == IF k \in {"discount_amount", "subtotal"} THEN RoundToCents(v) ELSE v

\* ------------------------------------------------- instance.update(values)
\* The validators, the beforeUpdate hook and the column types of each model.
FieldValid(model, k, v) ==
    CASE model = "Customer" -> CustomerFieldValid(k, v)
      [] model = "Purchase" -> PurchaseFieldValid(k, v)
      [] model = "PurchaseItem" -> ItemFieldValid(k, v)

BeforeUpdate(model, inst) ==
    CASE model = "Customer" -> CustomerBeforeUpdate(inst)
      [] model = "Purchase" -> PurchaseBeforeUpdate(inst)
      [] model = "PurchaseItem" -> ItemBeforeUpdate(inst)

Store(model, k, v) ==
    CASE model = "PurchaseItem" -> ItemStore(k, v)
      [] OTHER -> v

\* instance.update(values) up to the query: set, validate the given fields,
\* run beforeUpdate, validate again what the hook changed.
\* Result: ok (validators passed), noop (nothing changed: no query and no
\* afterUpdate), inst (the instance after the hook), fields (the columns
\* of the UPDATE).
InstanceUpdate(model, inst0, values) ==
    LET inst1 == SetAll(inst0, values)
        valid1 == \A k \in DOMAIN values : FieldValid(model, k, inst1.vals[k])
        inst2 == BeforeUpdate(model, inst1)
        hookChanged == {k \in inst2.changed :
                           k \notin DOMAIN values \/ inst2.vals[k] # inst1.vals[k]}
        valid2 == \A k \in hookChanged : FieldValid(model, k, inst2.vals[k])
    IN [ok |-> valid1 /\ valid2,
        noop |-> inst2.changed = {},
        inst |-> inst2,
        fields |-> DOMAIN values \cup hookChanged]

\* The UPDATE statement: only the listed columns of the row are written.
WriteFields(model, row, inst, fields) ==
    [k \in DOMAIN row |-> IF k \in fields THEN Store(model, k, inst.vals[k]) ELSE row[k]]

ItemToMemory(row) ==
    [row EXCEPT !.discount_amount = ToMemory(@), !.subtotal = ToMemory(@)]

\* PurchaseItem.findAll({where: {purchase_id}}) reduced with sum + subtotal
RECURSIVE SumSubtotals(_, _)
SumSubtotals(ids, tbl) ==
    IF ids = {} THEN 0
    ELSE LET i == CHOOSE x \in ids : TRUE
         IN tbl[i].subtotal + SumSubtotals(ids \ {i}, tbl)

ItemsOf(p, tbl) == {i \in DOMAIN tbl : tbl[i].purchase_id = p}

TotalAmount(p, tbl) == SumSubtotals(ItemsOf(p, tbl), tbl)

\* ------------------------------------------------------------------ requests
\* One request per slot. pc names the next query of the request; "done"
\* means the handler has returned (result tells how). wrote: the tables an
\* UPDATE of the request's after-hooks has been sent to.
Null == <<>>

Idle ==
    [kind |-> "none", pc |-> "done", result |-> "none",
     hook |-> "none", custId |-> NoId, amount |-> 0, date |-> NoDate, cust |-> Null,
     pid |-> NoId, prow |-> Null, pvalues |-> Null,
     iid |-> NoId, irow |-> Null, ivalues |-> Null, wrote |-> {},
     number |-> NoNumber, results |-> <<>>,
     body |-> <<>>, updates |-> <<>>, variant |-> Null]

Finished(kind, result) == [Idle EXCEPT !.kind = kind, !.result = result]

Started(kind) == [Idle EXCEPT !.kind = kind]

\* The tables together with the request of one slot.
World(s) ==
    [customers |-> customers, purchases |-> purchases, items |-> items,
     variants |-> variants,
     nextPurchaseId |-> nextPurchaseId, nextItemId |-> nextItemId, r |-> req[s]]

\* The handler returns; the targets of the request stay on record.
Finish(w, result) ==
    [w EXCEPT !.r = [Finished(w.r.kind, result) EXCEPT
                        !.pid = w.r.pid, !.iid = w.r.iid, !.wrote = w.r.wrote,
                        !.number = w.r.number]]

\* updatePurchaseAmounts(tax, discount), and an update of another column
AmountChanges ==
    {[tax_amount |-> t, discount_amount |-> d] : t \in TaxAmounts, d \in DiscountAmounts}

PurchaseChanges == AmountChanges \cup {[purchase_date |-> dt] : dt \in PurchaseDates}

\* quantity, unit_price and discount_percentage of a PurchaseItem.create:
\* the accepted values, and each rejected value among accepted ones.
BadItemInputs ==
    {[quantity |-> q, unit_price |-> u, discount_percentage |-> 0] :
        q \in BadQuantities, u \in UnitPrices}
    \cup {[quantity |-> 1, unit_price |-> u, discount_percentage |-> 0] :
        u \in BadUnitPrices}
    \cup {[quantity |-> 1, unit_price |-> u, discount_percentage |-> pc] :
        u \in UnitPrices, pc \in BadPercentages}

ItemInputs ==
    [quantity : Quantities, unit_price : UnitPrices, discount_percentage : Percentages]
    \cup BadItemInputs

BadItemChanges ==
    {[quantity |-> q] : q \in BadQuantities}
    \cup {[unit_price |-> u] : u \in BadUnitPrices}
    \cup {[discount_percentage |-> pc] : pc \in BadPercentages}

ItemChanges ==
    BadItemChanges \cup
    {[quantity |-> q] : q \in Quantities}
    \cup {[unit_price |-> u] : u \in UnitPrices}
    \cup {[discount_percentage |-> pc] : pc \in Percentages}
    \cup {[discount_amount |-> ToMemory(d)] : d \in SuppliedDiscounts \ {0}}
    \cup {[subtotal |-> ToMemory(x)] : x \in SuppliedDiscounts \ {0}}
    \cup {[notes |-> n] : n \in Notes}
    \cup {[purchase_id |-> p] : p \in 1..MaxPurchases}

\* ------------------------------------------------- Purchase.create(values)
\* build, validate, beforeCreate, INSERT; afterCreate follows. total_amount
\* and final_amount have no default and may not be null: a purchase is
\* created without items, with 0 for both. number is the purchase_number the
\* caller passes (NoNumber: none); timestamp and random are what Date.now()
\* and Math.random() give the hook.
BeginCreatePurchase(w, c, tax, discount, date, number, timestamp, random) ==
    LET built == [customer_id |-> c, purchase_number |-> number,
                  total_amount |-> 0,
                  discount_amount |-> discount, tax_amount |-> tax,
                  final_amount |-> 0,
                  purchase_date |-> date]
        valid == \A k \in DOMAIN built : PurchaseFieldValid(k, built[k])
        p == PurchaseBeforeCreate(built, timestamp, random)
        started == [Started("createPurchase") EXCEPT !.number = number]
    IN IF ~valid
       THEN Finish([w EXCEPT !.r = started], "ValidationError")
       ELSE IF NumberTaken(w.purchases, p.purchase_number)
       THEN Finish([w EXCEPT !.r = started], "UniqueConstraintError")
       ELSE [w EXCEPT
               !.purchases = w.purchases @@ (w.nextPurchaseId :> p),
               !.nextPurchaseId = w.nextPurchaseId + 1,
               !.r = [started EXCEPT
                         !.pc = "custFind", !.hook = "afterCreate",
                         !.pid = w.nextPurchaseId, !.custId = c,
                         !.amount = p.final_amount, !.date = date]]

\* Customer.findByPk(purchase.customer_id) of Purchase.afterCreate/afterUpdate
DoCustFind(w) ==
    IF w.r.custId \in DOMAIN w.customers
    THEN [w EXCEPT !.r.pc = "custUpdate", !.r.cust = w.customers[w.r.custId]]
    ELSE Finish(w, "ok")

\* A customer write that sets off the recomputation of the purchase.
DoCustUpdateTriggersPurchase(w) == [w EXCEPT !.r.pc = "purFind"]

\* customer.update(...) of Purchase.afterCreate/afterUpdate
DoCustUpdate(w) ==
    LET r == w.r
        values == IF r.hook = "afterCreate"
                  THEN AfterCreateCustomerValues(r.cust, r.amount, r.date)
                  ELSE AfterUpdateCustomerValues(r.cust, r.amount)
        u == InstanceUpdate("Customer", Load(r.cust, CustomerDecimals), values)
    IN IF ~u.ok
       THEN Finish(w, "ValidationError")
       ELSE IF u.noop \/ r.custId \notin DOMAIN w.customers
       THEN Finish(w, "ok")
       ELSE [Finish(w, "ok") EXCEPT
               !.customers[r.custId] = WriteFields("Customer", @, u.inst, u.fields),
               !.r.wrote = @ \cup {"customers"}]

\* ------------------------------------ Purchase.findByPk(p) then update(values)
BeginUpdatePurchase(w, p, values) ==
    IF p \in DOMAIN w.purchases
    THEN [w EXCEPT !.r = [Started("updatePurchase") EXCEPT
                             !.pc = "purSave", !.pid = p,
                             !.prow = w.purchases[p], !.pvalues = values]]
    ELSE Finish([w EXCEPT !.r = Started("updatePurchase")], "NotFound")

\* purchase.update(values): validate, beforeUpdate, validate, UPDATE;
\* afterUpdate follows when final_amount changed.
DoPurSave(w) ==
    LET r == w.r
        u == InstanceUpdate("Purchase", Load(r.prow, PurchaseDecimals), r.pvalues)
        written == IF r.pid \in DOMAIN w.purchases
                   THEN [w EXCEPT !.purchases[r.pid] =
                                     WriteFields("Purchase", @, u.inst, u.fields),
                                  !.r.wrote = @ \cup {"purchases"}]
                   ELSE w
    IN IF ~u.ok
       THEN Finish(w, "ValidationError")
       ELSE IF u.noop
       THEN Finish(w, "ok")
       ELSE IF "final_amount" \in u.inst.changed
       THEN [written EXCEPT
               !.r.pc = "custFind", !.r.hook = "afterUpdate",
               !.r.custId = u.inst.vals.customer_id,
               !.r.amount = u.inst.vals.final_amount - u.inst.prev.final_amount,
               !.r.prow = Null, !.r.pvalues = Null]
       ELSE Finish(written, "ok")

\* ---------------------------------------------- PurchaseItem.create(values)
\* build, validate, beforeCreate, INSERT; afterCreate follows. subtotal has
\* no default and may not be null: the caller passes 0 and the hook
\* overwrites it.
BeginCreateItem(w, p, product, variant, qty, price, pct, discount) ==
    LET built == [purchase_id |-> p, product_id |-> product,
                  product_variant_id |-> variant, quantity |-> qty, unit_price |-> price,
                  discount_percentage |-> pct,
                  discount_amount |-> ToMemory(discount), subtotal |-> 0,
                  notes |-> NoNotes]
        valid == \A k \in DOMAIN built : ItemFieldValid(k, built[k])
        it == ItemBeforeCreate(built)
    IN IF ~valid
       THEN Finish([w EXCEPT !.r = Started("createItem")], "ValidationError")
       ELSE [w EXCEPT
               !.items = w.items @@
                    (w.nextItemId :> [k \in DOMAIN it |-> ItemStore(k, it[k])]),
               !.nextItemId = w.nextItemId + 1,
               !.r = [Started("createItem") EXCEPT
                         !.pc = "purFind", !.iid = w.nextItemId, !.pid = p]]

\* Purchase.findByPk(item.purchase_id) of the item's after-hooks
DoPurFind(w) ==
    IF w.r.pid \in DOMAIN w.purchases
    THEN [w EXCEPT !.r.pc = "itemsFind", !.r.prow = w.purchases[w.r.pid]]
    ELSE Finish(w, "ok")

\* The values the item's after-hooks hand to purchase.update.
RecomputedPurchaseValues(totalAmount, purchase) ==
    [total_amount |-> totalAmount,
     final_amount |-> totalAmount + purchase.tax_amount - purchase.discount_amount]

\* PurchaseItem.findAll({where: {purchase_id}}) and the reduce over it
DoItemsFind(w) ==
    [w EXCEPT !.r.pc = "purSave",
              !.r.pvalues = RecomputedPurchaseValues(
                                TotalAmount(w.r.pid, w.items), w.r.prow)]

\* ------------------------------- PurchaseItem.findByPk(i) then update(values)
BeginUpdateItem(w, i, values) ==
    IF i \in DOMAIN w.items
    THEN [w EXCEPT !.r = [Started("updateItem") EXCEPT
                             !.pc = "itemSave", !.iid = i,
                             !.pid = w.items[i].purchase_id,
                             !.irow = w.items[i], !.ivalues = values]]
    ELSE Finish([w EXCEPT !.r = Started("updateItem")], "NotFound")

\* item.update(values): validate, beforeUpdate, validate, UPDATE (which the
\* foreign key on purchase_id rejects when the purchase is not there);
\* afterUpdate recomputes the purchase when subtotal changed.
DoItemSave(w) ==
    LET r == w.r
        u == InstanceUpdate("PurchaseItem", Load(ItemToMemory(r.irow), ItemDecimals),
                            r.ivalues)
        written == IF r.iid \in DOMAIN w.items
                   THEN [w EXCEPT !.items[r.iid] =
                            WriteFields("PurchaseItem", @, u.inst, u.fields)]
                   ELSE w
    IN IF ~u.ok
       THEN Finish(w, "ValidationError")
       ELSE IF u.noop
       THEN Finish(w, "ok")
       ELSE IF u.inst.vals.purchase_id \notin DOMAIN w.purchases
       THEN Finish(w, "ForeignKeyConstraintError")
       ELSE IF "subtotal" \in u.inst.changed
       THEN [written EXCEPT
               !.r.pc = "purFind", !.r.pid = u.inst.vals.purchase_id,
               !.r.irow = Null, !.r.ivalues = Null]
       ELSE Finish(written, "ok")

\* ---------------------------------- PurchaseItem.findByPk(i) then destroy()
BeginDestroyItem(w, i) ==
    IF i \in DOMAIN w.items
    THEN [w EXCEPT !.r = [Started("destroyItem") EXCEPT
                             !.pc = "itemDestroy", !.iid = i,
                             !.pid = w.items[i].purchase_id, !.irow = w.items[i]]]
    ELSE Finish([w EXCEPT !.r = Started("destroyItem")], "NotFound")

\* A DELETE that hands the item's quantity back to its variant's stock.
DoItemDestroyRestock(w) ==
    LET v == w.r.irow.product_variant_id
    IN [w EXCEPT !.items = [i \in DOMAIN w.items \ {w.r.iid} |-> w.items[i]],
                 !.variants = IF v \in DOMAIN w.variants
                              THEN [@ EXCEPT ![v].stock = @ + w.r.irow.quantity]
                              ELSE @,
                 !.r.pc = "purFind", !.r.pid = w.r.irow.purchase_id,
                 !.r.irow = Null]

\* DELETE of the item row; afterDestroy follows.
DoItemDestroy(w) ==
    [w EXCEPT !.items = [i \in DOMAIN w.items \ {w.r.iid} |-> w.items[i]],
              !.r.pc = "purFind", !.r.pid = w.r.irow.purchase_id,
              !.r.irow = Null]

\* -------------------------------------- Purchase.findByPk(p) then destroy()
BeginDestroyPurchase(w, p) ==
    IF p \in DOMAIN w.purchases
    THEN [w EXCEPT !.r = [Started("destroyPurchase") EXCEPT
                             !.pc = "purDestroy", !.pid = p,
                             !.custId = w.purchases[p].customer_id]]
    ELSE Finish([w EXCEPT !.r = Started("destroyPurchase")], "NotFound")

\* A DELETE of the purchase row alone.
DoPurDestroyNoCascade(w) ==
    Finish([w EXCEPT
              !.purchases = [p \in DOMAIN w.purchases \ {w.r.pid} |-> w.purchases[p]]],
           "ok")

\* DELETE of the purchase row; the foreign key of purchase_items deletes the
\* purchase's items with it (ON DELETE CASCADE, no item hook runs). Purchase
\* has no destroy hook.
DoPurDestroy(w) ==
    Finish([w EXCEPT
              !.purchases = [p \in DOMAIN w.purchases \ {w.r.pid} |-> w.purchases[p]],
              !.items = [i \in {j \in DOMAIN w.items :
                                  w.items[j].purchase_id # w.r.pid} |-> w.items[i]]],
           "ok")

\* ---------------------------------------------------------------- scheduling
\* The next query of the request in w.
Step(w) ==
    CASE w.r.pc = "custFind" -> DoCustFind(w)
      [] w.r.pc = "custUpdate" -> DoCustUpdate(w)
      [] w.r.pc = "purSave" -> DoPurSave(w)
      [] w.r.pc = "purFind" -> DoPurFind(w)
      [] w.r.pc = "itemsFind" -> DoItemsFind(w)
      [] w.r.pc = "itemSave" -> DoItemSave(w)
      [] w.r.pc = "itemDestroy" -> DoItemDestroy(w)
      [] w.r.pc = "purDestroy" -> DoPurDestroy(w)
      [] OTHER -> w

\* A request served alone: every query of the handler, up to its return.
RECURSIVE Run(_)
Run(w) == IF w.r.pc = "done" THEN w ELSE Run(Step(w))

\* ------------------------------------------------------ customer controller
\* !id || isNaN(parseInt(id)) || parseInt(id) <= 0
InvalidId(id) == id <= 0

\* exports.getCustomerById
GetCustomerByIdHandler(w, id) ==
    LET started == [w EXCEPT !.r = [Started("getCustomerById") EXCEPT !.custId = id]]
    IN IF InvalidId(id) THEN Finish(started, "BadRequest")
       ELSE IF ~ActiveCustomer(w.customers, id) THEN Finish(started, "NotFound")
       ELSE Finish(started, "ok")

\* exports.getCustomerPurchaseHistory (page left at its default)
GetCustomerPurchaseHistoryHandler(w, id, limit) ==
    LET started == [w EXCEPT !.r = [Started("getCustomerPurchaseHistory") EXCEPT
                                       !.custId = id]]
    IN IF InvalidId(id) THEN Finish(started, "BadRequest")
       ELSE IF limit < 1 \/ limit > MaxLimit THEN Finish(started, "BadRequest")
       ELSE IF ~ActiveCustomer(w.customers, id) THEN Finish(started, "NotFound")
       ELSE Finish(started, "ok")

\* customer.update(values) of the controller: validate, beforeUpdate, UPDATE
\* of the changed columns; the UPDATE fails on a phone another row has
\* (a Sequelize UniqueConstraintError is a ValidationError: 400).
CustomerSave(w, id, values) ==
    LET u == InstanceUpdate("Customer", Load(w.customers[id], CustomerDecimals), values)
        taken == /\ "phone" \in u.fields \cap u.inst.changed
                 /\ \E c \in DOMAIN w.customers \ {id} :
                        w.customers[c].phone = u.inst.vals.phone
    IN IF ~u.ok \/ (~u.noop /\ taken)
       THEN Finish(w, "ValidationError")
       ELSE IF u.noop THEN Finish(w, "ok")
       ELSE [Finish(w, "ok") EXCEPT
               !.customers[id] = WriteFields("Customer", @, u.inst, u.fields),
               !.r.wrote = @ \cup {"customers"}]

\* exports.updateCustomer
UpdateCustomerHandler(w, id, body) ==
    LET started == [w EXCEPT !.r = [Started("updateCustomer") EXCEPT !.custId = id]]
    IN IF InvalidId(id) THEN Finish(started, "BadRequest")
       ELSE IF ~ActiveCustomer(w.customers, id) THEN Finish(started, "NotFound")
       ELSE IF /\ body.phone # NoPhone /\ body.phone # w.customers[id].phone
               /\ ActiveWithPhone(w.customers, body.phone) \ {id} # {}
       THEN Finish(started, "Conflict")
       ELSE CustomerSave(started, id, UpdateCustomerValues(w.customers[id], body))

\* exports.deleteCustomer: customer.update({ isActive: false })
DeleteCustomerHandler(w, id) ==
    LET started == [w EXCEPT !.r = [Started("deleteCustomer") EXCEPT !.custId = id]]
    IN IF InvalidId(id) THEN Finish(started, "BadRequest")
       ELSE IF ~ActiveCustomer(w.customers, id) THEN Finish(started, "NotFound")
       ELSE CustomerSave(started, id, [isActive |-> FALSE])

\* ------------------------------------------------- bulkUpdateStock(req, res)
\* parseInt(update.newStock): the integer part of a number, NaN (not
\* numeric) for a string without leading digits.
IsNumeric(v) == v[1] \in {"num", "frac"}

ParseInt(v) == v[2]

\* The loop pushing no result for a variant it does not find.
BulkEntrySkipNotFound(w, update) ==
    LET id == update.variantId
    IN IF id \notin DOMAIN w.variants
       THEN w
       ELSE IF ~IsNumeric(update.newStock)
       THEN [w EXCEPT !.r.results =
                Append(@, [variantId |-> id, success |-> FALSE,
                           error |-> "error.message"])]
       ELSE [w EXCEPT !.variants[id].stock = ParseInt(update.newStock),
                      !.r.results =
                Append(@, [variantId |-> id, success |-> TRUE, error |-> "none"])]

\* One pass of the loop: findByPk, variant.update({stock}), results.push.
\* The update with NaN throws, and the catch pushes the failure.
BulkEntry(w, update) ==
    LET id == update.variantId
    IN IF id \notin DOMAIN w.variants
       THEN [w EXCEPT !.r.results =
                Append(@, [variantId |-> id, success |-> FALSE,
                           error |-> "Variant not found"])]
       ELSE IF ~IsNumeric(update.newStock)
       THEN [w EXCEPT !.r.results =
                Append(@, [variantId |-> id, success |-> FALSE,
                           error |-> "error.message"])]
       ELSE [w EXCEPT !.variants[id].stock = ParseInt(update.newStock),
                      !.r.results =
                Append(@, [variantId |-> id, success |-> TRUE, error |-> "none"])]

\* for (const update of updates)
RECURSIVE BulkLoop(_, _)
BulkLoop(w, updates) ==
    IF updates = <<>> THEN w
    ELSE BulkLoop(BulkEntry(w, Head(updates)), Tail(updates))

\* The request body: <<"array", updates>>, or <<"other">> when updates is
\* not an array (400).
BulkUpdateStockHandler(w, body) ==
    IF body[1] # "array"
    THEN [w EXCEPT !.r = Finished("bulkUpdateStock", "BadRequest")]
    ELSE LET looped == BulkLoop([w EXCEPT !.r = Started("bulkUpdateStock")], body[2])
         IN [looped EXCEPT !.r.result = "ok"]

\* The handler query by query, for requests in flight together. body: the
\* updates array of the request; updates: the entries the loop has yet to
\* take; variant: the instance findByPk returned.
BeginBulkUpdateStock(w, body) ==
    IF body[1] # "array"
    THEN [w EXCEPT !.r = Finished("bulkUpdateStock", "BadRequest")]
    ELSE [w EXCEPT !.r = [Started("bulkUpdateStock") EXCEPT
                             !.body = body[2], !.updates = body[2],
                             !.pc = IF body[2] = <<>> THEN "done" ELSE "varFind",
                             !.result = IF body[2] = <<>> THEN "ok" ELSE "none"]]

\* results.push(...), then the next entry, or res.json({ results }).
PushResult(w, success, error) ==
    LET rest == Tail(w.r.updates)
    IN [w EXCEPT !.r.results =
                    Append(@, [variantId |-> Head(w.r.updates).variantId,
                               success |-> success, error |-> error]),
                 !.r.updates = rest, !.r.variant = Null,
                 !.r.pc = IF rest = <<>> THEN "done" ELSE "varFind",
                 !.r.result = IF rest = <<>> THEN "ok" ELSE "none"]

\* await ProductVariant.findByPk(update.variantId)
DoVarFind(w) ==
    LET id == Head(w.r.updates).variantId
    IN IF id \in DOMAIN w.variants
       THEN [w EXCEPT !.r.pc = "varSave",
                      !.r.variant = [id |-> id, stock |-> w.variants[id].stock]]
       ELSE PushResult(w, FALSE, "Variant not found")

\* An UPDATE adding the value to the stored stock.
DoVarSaveAdding(w) ==
    LET update == Head(w.r.updates)
        id == w.r.variant.id
    IN IF ~IsNumeric(update.newStock)
       THEN PushResult(w, FALSE, "error.message")
       ELSE IF ParseInt(update.newStock) = w.r.variant.stock \/ id \notin DOMAIN w.variants
       THEN PushResult(w, TRUE, "none")
       ELSE PushResult([w EXCEPT !.variants[id].stock = @ + ParseInt(update.newStock)],
                       TRUE, "none")

\* await variant.update({ stock: parseInt(update.newStock) }): NaN throws; a
\* value equal to the one the instance holds changes nothing and no query is
\* sent; otherwise UPDATE product_variants SET stock = value WHERE id.
DoVarSave(w) ==
    LET update == Head(w.r.updates)
        id == w.r.variant.id
    IN IF ~IsNumeric(update.newStock)
       THEN PushResult(w, FALSE, "error.message")
       ELSE IF ParseInt(update.newStock) = w.r.variant.stock \/ id \notin DOMAIN w.variants
       THEN PushResult(w, TRUE, "none")
       ELSE PushResult([w EXCEPT !.variants[id].stock = ParseInt(update.newStock)],
                       TRUE, "none")

Commit(s, w) ==
    /\ customers' = w.customers
    /\ purchases' = w.purchases
    /\ items' = w.items
    /\ variants' = w.variants
    /\ nextPurchaseId' = w.nextPurchaseId
    /\ nextItemId' = w.nextItemId
    /\ req' = [req EXCEPT ![s] = w.r]
    /\ UNCHANGED decimalsAsStrings

Init ==
    /\ decimalsAsStrings \in BOOLEAN
    /\ customers = [c \in CustomerIds |-> CustomerRow(NewCustomer, c)]
    /\ purchases = <<>>
    /\ items = <<>>
    /\ variants = <<NewVariant(1)>>
    /\ nextPurchaseId = 1
    /\ nextItemId = 1
    /\ req = [s \in Slots |-> Idle]

\* ------------------------------------- requests served one at a time (Spec)
\* The whole handler is one action; what is left of the request is its kind,
\* its result and the tables its after-hooks wrote.
Served(w) ==
    [w EXCEPT !.r = [Finished(w.r.kind, w.r.result) EXCEPT
                        !.wrote = w.r.wrote, !.results = w.r.results]]

CreatePurchase(c, tax, discount, date, number, timestamp, random) ==
    /\ nextPurchaseId <= MaxPurchases
    /\ Commit(1, Served(Run(BeginCreatePurchase(World(1), c, tax, discount, date,
                                                 number, timestamp, random))))

UpdatePurchase(p, values) ==
    Commit(1, Served(Run(BeginUpdatePurchase(World(1), p, values))))

CreateItem(p, product, variant, qty, price, pct, discount) ==
    /\ nextItemId <= MaxItems
    /\ p \in DOMAIN purchases
    /\ variant \in DOMAIN variants \cup {NoId}
    /\ Commit(1, Served(Run(BeginCreateItem(World(1), p, product, variant,
                                             qty, price, pct, discount))))

UpdateItem(i, values) ==
    Commit(1, Served(Run(BeginUpdateItem(World(1), i, values))))

DestroyItem(i) ==
    Commit(1, Served(Run(BeginDestroyItem(World(1), i))))

DestroyPurchase(p) ==
    Commit(1, Served(Run(BeginDestroyPurchase(World(1), p))))

Next ==
    \/ \E c \in CustomerIds, t \in TaxAmounts, d \in DiscountAmounts,
          dt \in PurchaseDates, n \in SuppliedNumbers \cup {NoNumber},
          ts \in Timestamps, rnd \in Randoms : CreatePurchase(c, t, d, dt, n, ts, rnd)
    \/ \E p \in 1..MaxPurchases, v \in PurchaseChanges : UpdatePurchase(p, v)
    \/ \E p \in 1..MaxPurchases, pr \in ProductIds, v \in VariantIds \cup {NoId},
          in \in ItemInputs, d \in SuppliedDiscounts :
          CreateItem(p, pr, v, in.quantity, in.unit_price, in.discount_percentage, d)
    \/ \E i \in 1..MaxItems, v \in ItemChanges : UpdateItem(i, v)
    \/ \E i \in 1..MaxItems : DestroyItem(i)
    \/ \E p \in 1..MaxPurchases : DestroyPurchase(p)

Spec == Init /\ [][Next]_vars

\* ------------------------------- one purchase with one item (SpecScenario)
\* The ledger requests served one at a time with amounts of whole currency
\* units: unit price 100.00, tax 10.00, discount 5.00, 10 percent.
ScenarioTaxAmounts == {0, 1000}
ScenarioDiscountAmounts == {0, 500}
ScenarioUnitPrices == {10000}
ScenarioQuantities == {2, 3}
ScenarioPercentages == {0, 10}

ScenarioNext ==
    \/ \E c \in CustomerIds, t \in ScenarioTaxAmounts, d \in ScenarioDiscountAmounts,
          n \in SuppliedNumbers : CreatePurchase(c, t, d, 1, n, 1, 0)
    \/ \E p \in 1..MaxPurchases, t \in ScenarioTaxAmounts, d \in ScenarioDiscountAmounts :
          UpdatePurchase(p, [tax_amount |-> t, discount_amount |-> d])
    \/ \E p \in 1..MaxPurchases, q \in ScenarioQuantities, u \in ScenarioUnitPrices,
          pc \in ScenarioPercentages : CreateItem(p, 1, NoId, q, u, pc, 0)
    \/ \E i \in 1..MaxItems, q \in ScenarioQuantities : UpdateItem(i, [quantity |-> q])
    \/ \E i \in 1..MaxItems, pc \in ScenarioPercentages :
          UpdateItem(i, [discount_percentage |-> pc])
    \/ \E i \in 1..MaxItems : DestroyItem(i)

SpecScenario == Init /\ [][ScenarioNext]_vars

\* ------------------------- customer requests among the ledger (SpecCustomer)
\* The customer controller's requests among ledger requests, each served
\* alone.
CustomerBodies == [name : Names \cup {NoName}, phone : Phones \cup BadPhones \cup {NoPhone}]

GetCustomerById(id) ==
    Commit(1, Served(GetCustomerByIdHandler(World(1), id)))

GetCustomerPurchaseHistory(id, limit) ==
    Commit(1, Served(GetCustomerPurchaseHistoryHandler(World(1), id, limit)))

UpdateCustomer(id, body) ==
    Commit(1, Served(UpdateCustomerHandler(World(1), id, body)))

DeleteCustomer(id) ==
    Commit(1, Served(DeleteCustomerHandler(World(1), id)))

CustomerNext ==
    \/ \E id \in RequestIds : GetCustomerById(id)
    \/ \E id \in RequestIds, l \in Limits : GetCustomerPurchaseHistory(id, l)
    \/ \E id \in RequestIds, b \in CustomerBodies : UpdateCustomer(id, b)
    \/ \E id \in RequestIds : DeleteCustomer(id)
    \/ \E c \in CustomerIds, t \in TaxAmounts, dt \in PurchaseDates,
          n \in SuppliedNumbers : CreatePurchase(c, t, 0, dt, n, 1, 0)
    \/ \E p \in 1..MaxPurchases, q \in Quantities, u \in UnitPrices :
          CreateItem(p, 1, NoId, q, u, 0, 0)
    \/ \E i \in 1..MaxItems : DestroyItem(i)
    \/ \E p \in 1..MaxPurchases : DestroyPurchase(p)

SpecCustomer == Init /\ [][CustomerNext]_vars

\* --------------------------------- stock and ledger side by side (SpecStock)
\* Bulk stock updates among the ledger requests, each served alone; the
\* ledger requests take one value per input.
StockUpdates == [variantId : VariantIds, newStock : StockInputs]

Bodies ==
    {<<"other">>} \cup {<<"array", u>> : u \in UNION {[1..n -> StockUpdates] : n \in 0..MaxUpdates}}

BulkUpdateStock(body) ==
    Commit(1, Served(BulkUpdateStockHandler(World(1), body)))

StockNext ==
    \/ \E b \in Bodies : BulkUpdateStock(b)
    \/ \E c \in CustomerIds, n \in SuppliedNumbers : CreatePurchase(c, 0, 0, 1, n, 1, 0)
    \/ \E p \in 1..MaxPurchases, pr \in ProductIds, v \in VariantIds \cup {NoId},
          q \in Quantities, u \in UnitPrices : CreateItem(p, pr, v, q, u, 0, 0)
    \/ \E i \in 1..MaxItems, q \in Quantities : UpdateItem(i, [quantity |-> q])
    \/ \E i \in 1..MaxItems : DestroyItem(i)

SpecStock == Init /\ [][StockNext]_vars

TypeOK ==
    /\ decimalsAsStrings \in BOOLEAN
    /\ DOMAIN customers = CustomerIds
    /\ DOMAIN purchases \subseteq 1..MaxPurchases
    /\ DOMAIN items \subseteq 1..MaxItems

\* ------------------------------------ two requests in flight (SpecConc)
\* The tables after four requests served alone: two purchases of customer 1,
\* the first with two items. Each slot then serves one request, and the
\* queries of the two requests interleave.
ConcItem ==
    [purchase_id |-> 1, product_id |-> 1, product_variant_id |-> NoId,
     quantity |-> 1, unit_price |-> 4, discount_percentage |-> 0,
     discount_amount |-> 0, subtotal |-> 4, notes |-> NoNotes]

ConcCustomer == [totalPurchases |-> 2, totalSpent |-> 8, lastPurchaseDate |-> 2]

ConcPurchase(number, total, date) ==
    [customer_id |-> 1, purchase_number |-> number,
     total_amount |-> total, discount_amount |-> 0,
     tax_amount |-> 0, final_amount |-> total, purchase_date |-> date]

ConcInit ==
    /\ decimalsAsStrings \in BOOLEAN
    /\ customers = [c \in CustomerIds |->
                      CustomerRow(IF c = 1 THEN ConcCustomer ELSE NewCustomer, c)]
    /\ purchases = <<ConcPurchase(<<"INV", 1>>, 8, 1), ConcPurchase(<<"INV", 2>>, 0, 2)>>
    /\ items = <<ConcItem, ConcItem>>
    /\ variants = <<NewVariant(1)>>
    /\ nextPurchaseId = 3
    /\ nextItemId = 3
    /\ req = [s \in Slots |-> Idle]

\* The number of a stored purchase, and two no purchase has.
ConcNumbers == SuppliedNumbers \cup {<<"INV", 3>>, <<"INV", 4>>}
ConcQuantities == {2}
ConcTaxAmounts == {1}

ConcCreatePurchase(s, c, tax, discount, date, number, timestamp, random) ==
    /\ req[s].kind = "none"
    /\ Commit(s, BeginCreatePurchase(World(s), c, tax, discount, date,
                                     number, timestamp, random))

ConcUpdatePurchase(s, p, values) ==
    /\ req[s].kind = "none"
    /\ Commit(s, BeginUpdatePurchase(World(s), p, values))

ConcCreateItem(s, p, qty, price, pct, discount) ==
    /\ req[s].kind = "none"
    /\ p \in DOMAIN purchases
    /\ Commit(s, BeginCreateItem(World(s), p, 1, NoId, qty, price, pct, discount))

ConcUpdateItem(s, i, values) ==
    /\ req[s].kind = "none"
    /\ Commit(s, BeginUpdateItem(World(s), i, values))

ConcDestroyItem(s, i) ==
    /\ req[s].kind = "none"
    /\ Commit(s, BeginDestroyItem(World(s), i))

ConcDestroyPurchase(s, p) ==
    /\ req[s].kind = "none"
    /\ Commit(s, BeginDestroyPurchase(World(s), p))

CustFind(s) == req[s].pc = "custFind" /\ Commit(s, DoCustFind(World(s)))

CustUpdate(s) == req[s].pc = "custUpdate" /\ Commit(s, DoCustUpdate(World(s)))

PurSave(s) == req[s].pc = "purSave" /\ Commit(s, DoPurSave(World(s)))

PurFind(s) == req[s].pc = "purFind" /\ Commit(s, DoPurFind(World(s)))

ItemsFind(s) == req[s].pc = "itemsFind" /\ Commit(s, DoItemsFind(World(s)))

ItemSave(s) == req[s].pc = "itemSave" /\ Commit(s, DoItemSave(World(s)))

ItemDestroy(s) == req[s].pc = "itemDestroy" /\ Commit(s, DoItemDestroy(World(s)))

PurDestroy(s) == req[s].pc = "purDestroy" /\ Commit(s, DoPurDestroy(World(s)))

ConcNext ==
    \E s \in Slots :
        \/ \E c \in CustomerIds, t \in ConcTaxAmounts, dt \in PurchaseDates,
              n \in ConcNumbers \cup {NoNumber}, ts \in Timestamps, rnd \in Randoms :
              ConcCreatePurchase(s, c, t, 0, dt, n, ts, rnd)
        \/ \E p \in DOMAIN purchases, t \in ConcTaxAmounts :
              ConcUpdatePurchase(s, p, [tax_amount |-> t, discount_amount |-> 0])
        \/ \E p \in DOMAIN purchases, q \in ConcQuantities, u \in UnitPrices :
              ConcCreateItem(s, p, q, u, 0, 0)
        \/ \E i \in DOMAIN items, q \in ConcQuantities :
              ConcUpdateItem(s, i, [quantity |-> q])
        \/ \E i \in DOMAIN items, p \in DOMAIN purchases :
              ConcUpdateItem(s, i, [purchase_id |-> p])
        \/ \E i \in DOMAIN items : ConcDestroyItem(s, i)
        \/ \E p \in DOMAIN purchases : ConcDestroyPurchase(s, p)
        \/ CustFind(s)
        \/ CustUpdate(s)
        \/ PurSave(s)
        \/ PurFind(s)
        \/ ItemsFind(s)
        \/ ItemSave(s)
        \/ ItemDestroy(s)
        \/ PurDestroy(s)

SpecConc == ConcInit /\ [][ConcNext]_vars

\* The next query of the request in slot s.
Continue(s) ==
    \/ CustFind(s)
    \/ CustUpdate(s)
    \/ PurSave(s)
    \/ PurFind(s)
    \/ ItemsFind(s)
    \/ ItemSave(s)
    \/ ItemDestroy(s)
    \/ PurDestroy(s)

\* A query returns, and the event loop then runs the continuation of the
\* request that awaits it.
\* This is WF_vars(Continue(s)) for every slot, with ENABLED <<Continue(s)>>_vars
\* written out as req[s].pc # "done": a request that has not returned always
\* has its next query to run, and running it moves req[s].pc.
SpecConcFair ==
    SpecConc /\ \A s \in Slots :
                   \/ []<>(req[s].pc = "done")
                   \/ []<><<Continue(s)>>_vars

\* ------------------------ two bulk stock updates in flight (SpecConcStock)
\* Two variants in stock 0; each slot serves one bulkUpdateStock request and
\* the queries of the two loops interleave.
ConcStockInputs == {<<"num", 0>>, <<"num", 2>>, <<"frac", 1, 5>>}

ConcStockUpdates == [variantId : VariantIds, newStock : ConcStockInputs]

ConcBodies ==
    {<<"other">>} \cup
    {<<"array", u>> : u \in UNION {[1..n -> ConcStockUpdates] : n \in 0..MaxUpdates}}

ConcStockInit ==
    /\ decimalsAsStrings \in BOOLEAN
    /\ customers = [c \in CustomerIds |-> CustomerRow(NewCustomer, c)]
    /\ purchases = <<>>
    /\ items = <<>>
    /\ variants = <<NewVariant(1), NewVariant(1)>>
    /\ nextPurchaseId = 1
    /\ nextItemId = 1
    /\ req = [s \in Slots |-> Idle]

ConcBulkUpdateStock(s, body) ==
    /\ req[s].kind = "none"
    /\ Commit(s, BeginBulkUpdateStock(World(s), body))

VarFind(s) == req[s].pc = "varFind" /\ Commit(s, DoVarFind(World(s)))

VarSave(s) == req[s].pc = "varSave" /\ Commit(s, DoVarSave(World(s)))

ConcStockNext ==
    \E s \in Slots :
        \/ \E b \in ConcBodies : ConcBulkUpdateStock(s, b)
        \/ VarFind(s)
        \/ VarSave(s)

SpecConcStock == ConcStockInit /\ [][ConcStockNext]_vars

\* =================================================================== claims
RECURSIVE SumFinalAmounts(_, _)
SumFinalAmounts(ids, tbl) ==
    IF ids = {} THEN 0
    ELSE LET p == CHOOSE x \in ids : TRUE
         IN tbl[p].final_amount + SumFinalAmounts(ids \ {p}, tbl)

PurchasesOf(c, tbl) == {p \in DOMAIN tbl : tbl[p].customer_id = c}

ItemKinds == {"createItem", "updateItem", "destroyItem"}

\* C1: after any sequence of item create, update and delete requests, each
\* served alone, every purchase's total_amount is the sum of the subtotals
\* of the items it owns (0 for a purchase without items).
C1_TotalIsSumOfSubtotals ==
    \A p \in DOMAIN purchases : purchases[p].total_amount = TotalAmount(p, items)

C3_FinalAmountNonNegative ==
    \A p \in DOMAIN purchases : purchases[p].final_amount >= 0

\* C4: an update of tax_amount/discount_amount that would make
\* total_amount + tax_amount - discount_amount negative fails and leaves the
\* purchase and the customers as they were.
C4_NegativeUpdateRejected ==
    [][\A p \in DOMAIN purchases, v \in AmountChanges :
          (/\ UpdatePurchase(p, v)
           /\ purchases[p].total_amount + v.tax_amount - v.discount_amount < 0)
          => (/\ req'[1].result = "ValidationError"
              /\ purchases' = purchases
              /\ customers' = customers)]_vars

\* C5: each customer's totalSpent is the sum of final_amount over the
\* customer's purchases and totalPurchases is their number.
C5_CustomerRollup ==
    \A c \in DOMAIN customers :
        /\ customers[c].totalSpent = SumFinalAmounts(PurchasesOf(c, purchases), purchases)
        /\ customers[c].totalPurchases = Cardinality(PurchasesOf(c, purchases))

\* C6: every stored item has discount_amount = unit_price * quantity *
\* discount_percentage / 100, subtotal = unit_price * quantity -
\* discount_amount, and subtotal >= 0.
C6_ItemPricing ==
    \A i \in DOMAIN items :
        /\ 100 * items[i].discount_amount =
               items[i].unit_price * items[i].quantity * items[i].discount_percentage
        /\ items[i].subtotal =
               items[i].unit_price * items[i].quantity - items[i].discount_amount
        /\ items[i].subtotal >= 0

\* C10: a request on an item that fails leaves items, purchases and
\* customers in the state they had before the request.
C10_FailedChainChangesNothing ==
    [][(req'[1].kind \in ItemKinds /\ req'[1].result = "ValidationError")
          => (items' = items /\ purchases' = purchases /\ customers' = customers)]_vars

\* Both requests of SpecConc have been served.
BothDone == \A s \in Slots : req[s].kind # "none" /\ req[s].pc = "done"

\* C7: once two concurrent item mutations on different items of the same
\* purchase have finished, the purchase's total_amount is the sum of the
\* subtotals of its current items.
C7_NoLostTotalUpdate ==
    (/\ BothDone
     /\ req[1].kind \in ItemKinds /\ req[2].kind \in ItemKinds
     /\ req[1].iid # req[2].iid
     /\ req[1].pid = req[2].pid
     /\ req[1].pid \in DOMAIN purchases)
    => purchases[req[1].pid].total_amount = TotalAmount(req[1].pid, items)

\* C8: once two concurrent createPurchase requests for one customer have
\* finished, the customer's totalPurchases has grown by 2 and totalSpent by
\* the sum of the two final amounts.
C8_NoLostCustomerIncrement ==
    (/\ BothDone
     /\ req[1].kind = "createPurchase" /\ req[2].kind = "createPurchase"
     /\ req[1].result = "ok" /\ req[2].result = "ok"
     /\ purchases[req[1].pid].customer_id = 1
     /\ purchases[req[2].pid].customer_id = 1)
    => /\ customers[1].totalPurchases = ConcCustomer.totalPurchases + 2
       /\ customers[1].totalSpent =
              ConcCustomer.totalSpent + purchases[req[1].pid].final_amount
                  + purchases[req[2].pid].final_amount

\* C9: once two concurrent item mutations (on one purchase or on two
\* purchases of one customer) have finished, the customer's totalSpent is
\* the sum of the final amounts of the customer's purchases.
C9_NoLostCustomerDelta ==
    (/\ BothDone
     /\ req[1].kind \in ItemKinds /\ req[2].kind \in ItemKinds)
    => \A c \in DOMAIN customers :
          customers[c].totalSpent =
              SumFinalAmounts(PurchasesOf(c, purchases), purchases)

PricingFields == {"quantity", "unit_price", "discount_percentage"}

\* C11: an item update whose values change none of quantity, unit_price and
\* discount_percentage leaves the item's discount_amount and subtotal, the
\* purchases and the customers as they were, and sends no UPDATE to the
\* purchase or the customer.
C11_NoPricingChangeNoRecompute ==
    [][\A i \in DOMAIN items, v \in ItemChanges :
          (/\ UpdateItem(i, v)
           /\ \A k \in DOMAIN v \cap PricingFields : v[k] = items[i][k])
          => (/\ i \in DOMAIN items'
              /\ items'[i].discount_amount = items[i].discount_amount
              /\ items'[i].subtotal = items[i].subtotal
              /\ purchases' = purchases
              /\ customers' = customers
              /\ req'[1].wrote = {})]_vars

\* C12: no customer ever has a negative totalSpent, and a customer update
\* whose delta would drive totalSpent below 0 stores exactly 0 and lets the
\* request complete.
C12_TotalSpentClamped ==
    /\ [](\A c \in DOMAIN customers : customers[c].totalSpent >= 0)
    /\ [][\A s \in Slots :
             (/\ CustUpdate(s)
              /\ req[s].cust.totalSpent + req[s].amount < 0)
             => (/\ customers'[req[s].custId].totalSpent = 0
                 /\ req'[s].result = "ok")]_vars

\* C13: deleting a purchase takes 1 off the owning customer's totalPurchases
\* and the purchase's final_amount off the customer's totalSpent.
C13_PurchaseRemovalReversesRollup ==
    [][\A p \in DOMAIN purchases :
          DestroyPurchase(p)
          => LET c == purchases[p].customer_id
             IN /\ customers'[c].totalPurchases = customers[c].totalPurchases - 1
                /\ customers'[c].totalSpent =
                       customers[c].totalSpent - purchases[p].final_amount]_vars

\* The customer rows of ConcInit.
ConcCustomers(c) == IF c = 1 THEN ConcCustomer ELSE NewCustomer

\* Slot s has served a createPurchase alone: the other slot never started.
CreatedAlone(s) ==
    /\ req[s].kind = "createPurchase" /\ req[s].pc = "done" /\ req[s].result = "ok"
    /\ \A t \in Slots \ {s} : req[t].kind = "none"
    /\ req[s].pid \in DOMAIN purchases

\* C14: a createPurchase served alone adds 1 to the customer's
\* totalPurchases, adds the new purchase's final_amount to totalSpent and
\* sets lastPurchaseDate to the new purchase's date, earlier or not.
C14_NewPurchaseRollup ==
    \A s \in Slots :
        CreatedAlone(s)
        => LET p == purchases[req[s].pid]
               before == ConcCustomers(p.customer_id)
               after == customers[p.customer_id]
           IN /\ after.totalPurchases = before.totalPurchases + 1
              /\ after.totalSpent = before.totalSpent + p.final_amount
              /\ after.lastPurchaseDate = p.purchase_date

\* A purchase dated before the customer's lastPurchaseDate has been created.
C14_Witness ==
    \E s \in Slots :
        /\ CreatedAlone(s)
        /\ purchases[req[s].pid].customer_id = 1
        /\ purchases[req[s].pid].purchase_date < ConcCustomer.lastPurchaseDate
        /\ customers[1].lastPurchaseDate = purchases[req[s].pid].purchase_date

\* C15: no two persisted purchases have the same purchase_number, and a
\* purchase created with a caller-supplied number is stored with that number.
C15_PurchaseNumbersUnique ==
    /\ \A p, q \in DOMAIN purchases :
           purchases[p].purchase_number = purchases[q].purchase_number => p = q
    /\ \A s \in Slots :
           (/\ req[s].kind = "createPurchase" /\ req[s].number # NoNumber
            /\ req[s].pid \in DOMAIN purchases)
           => purchases[req[s].pid].purchase_number = req[s].number

\* Two concurrent creations supplied the same fresh number: one is stored with
\* it, the other is rejected by the unique index.
C15_Witness ==
    \E s, t \in Slots :
        /\ req[s].kind = "createPurchase" /\ req[s].result = "ok"
        /\ req[s].pid \in DOMAIN purchases
        /\ purchases[req[s].pid].purchase_number = req[s].number
        /\ req[t].kind = "createPurchase"
        /\ req[t].result = "UniqueConstraintError"
        /\ req[t].number = req[s].number

\* C16: a purchase creation that supplies no purchase_number never fails: a
\* number is generated, whatever numbers the stored purchases have.
C16_GeneratedNumberNeverFails ==
    [][\A c \in CustomerIds, t \in TaxAmounts, d \in DiscountAmounts,
         dt \in PurchaseDates, ts \in Timestamps, rnd \in Randoms :
            CreatePurchase(c, t, d, dt, NoNumber, ts, rnd)
            => (/\ req'[1].result = "ok"
                /\ Len(purchases') = Len(purchases) + 1)]_vars

\* An entry the stock path accepts: an existing variant and a non-negative
\* integer.
ValidEntry(update) ==
    /\ update.variantId \in DOMAIN variants
    /\ update.newStock[1] = "num" /\ update.newStock[2] >= 0

C18_NegativeStockRejected ==
    /\ [](\A v \in DOMAIN variants : variants[v].stock >= 0)
    /\ [][\A e \in StockUpdates :
             (/\ BulkUpdateStock(<<"array", <<e>> >>)
              /\ e.variantId \in DOMAIN variants
              /\ e.newStock[1] = "num" /\ e.newStock[2] < 0)
             => (/\ ~req'[1].results[1].success
                 /\ variants' = variants)]_vars

LedgerKinds ==
    {"createPurchase", "updatePurchase", "destroyPurchase",
     "createItem", "updateItem", "destroyItem"}

\* C19: a purchase or item request leaves every variant's stock as it was,
\* and a bulk stock update leaves every item, purchase and customer as it
\* was.
C19_StockLedgerIndependent ==
    [][/\ req'[1].kind \in LedgerKinds => variants' = variants
       /\ req'[1].kind = "bulkUpdateStock"
             => (items' = items /\ purchases' = purchases /\ customers' = customers)]_vars

\* An item of variant 1 was deleted, after a bulk update took the variant's
\* stock off its default: the stock is where the bulk update put it.
C19_Witness ==
    /\ req[1].kind = "destroyItem" /\ req[1].result = "ok"
    /\ variants[1].stock = 2

\* C20: creating an item whose variant belongs to another product than the
\* item's product fails with a referential failure, stores no item and
\* changes no purchase.
C20_VariantOfOtherProductRejected ==
    [][\A p \in DOMAIN purchases, pr \in ProductIds, v \in DOMAIN variants,
         q \in Quantities, u \in UnitPrices, pc \in Percentages,
         d \in SuppliedDiscounts :
            (CreateItem(p, pr, v, q, u, pc, d) /\ variants[v].product_id # pr)
            => (/\ req'[1].result = "ReferentialFailure"
                /\ items' = items
                /\ purchases' = purchases)]_vars

\* C21: an item creation or update with a negative unit price, a quantity
\* outside 1..999999 or a discount percentage outside 0..100 is rejected by
\* validation and changes no item, no purchase and no customer: a step that
\* is not such a rejection is not the step of a request with such a value.
Rejected ==
    /\ req'[1].result = "ValidationError"
    /\ items' = items /\ purchases' = purchases /\ customers' = customers

C21_InvalidItemRejected ==
    [][/\ (req'[1].kind = "createItem" /\ ~Rejected)
            => \A p \in DOMAIN purchases, pr \in ProductIds,
                  v \in DOMAIN variants \cup {NoId},
                  in \in BadItemInputs, d \in SuppliedDiscounts :
                  ~CreateItem(p, pr, v, in.quantity, in.unit_price,
                              in.discount_percentage, d)
       /\ (req'[1].kind = "updateItem" /\ ~Rejected)
            => \A i \in DOMAIN items, v \in BadItemChanges : ~UpdateItem(i, v)]_vars

\* An update of a stored item was rejected before any write.
C21_Witness ==
    /\ req[1].kind = "updateItem" /\ req[1].result = "ValidationError"
    /\ req[1].wrote = {}
    /\ DOMAIN items # {}

\* The purchase p as the scenario has it: tax 10.00, discount 5.00 and the
\* given total, with the final amount that goes with them.
ScenarioPurchase(p, total) ==
    /\ p \in DOMAIN purchases
    /\ purchases[p].tax_amount = 1000 /\ purchases[p].discount_amount = 500
    /\ purchases[p].total_amount = total
    /\ purchases[p].final_amount = total + 500

\* The item i as the scenario has it: 100.00 a piece, 10 percent off.
ScenarioItem(i, qty, subtotal) ==
    /\ i \in DOMAIN items
    /\ items[i].unit_price = 10000 /\ items[i].discount_percentage = 10
    /\ items[i].quantity = qty /\ items[i].subtotal = subtotal

\* C22: on a new purchase with tax 10.00 and discount 5.00 (final 5.00, the
\* customer's first purchase), adding an item of 2 at 100.00 with 10 percent
\* off gives item discount 20.00 and subtotal 180.00, purchase total 180.00
\* and final 185.00, and totalSpent 185.00 in all; changing the quantity to 3
\* gives subtotal 270.00, total 270.00, final 275.00 and totalSpent + 90.00;
\* deleting the item gives total 0, final 5.00 and totalSpent - 270.00.
C22_Scenario ==
    [][/\ \A p \in DOMAIN purchases :
            (/\ ScenarioPurchase(p, 0) /\ ItemsOf(p, items) = {}
             /\ customers[purchases[p].customer_id].totalSpent = 500
             /\ CreateItem(p, 1, NoId, 2, 10000, 10, 0))
            => (/\ items'[nextItemId].discount_amount = 2000
                /\ items'[nextItemId].subtotal = 18000
                /\ purchases'[p].total_amount = 18000
                /\ purchases'[p].final_amount = 18500
                /\ customers'[purchases[p].customer_id].totalSpent = 18500)
       /\ \A i \in DOMAIN items :
            (/\ ScenarioItem(i, 2, 18000) /\ ScenarioPurchase(items[i].purchase_id, 18000)
             /\ UpdateItem(i, [quantity |-> 3]))
            => LET p == items[i].purchase_id
                   c == purchases[p].customer_id
               IN /\ items'[i].subtotal = 27000
                  /\ purchases'[p].total_amount = 27000
                  /\ purchases'[p].final_amount = 27500
                  /\ customers'[c].totalSpent = customers[c].totalSpent + 9000
       /\ \A i \in DOMAIN items :
            (/\ ScenarioItem(i, 3, 27000) /\ ScenarioPurchase(items[i].purchase_id, 27000)
             /\ DestroyItem(i))
            => LET p == items[i].purchase_id
                   c == purchases[p].customer_id
               IN /\ i \notin DOMAIN items'
                  /\ purchases'[p].total_amount = 0
                  /\ purchases'[p].final_amount = 500
                  /\ customers'[c].totalSpent = customers[c].totalSpent - 27000]_vars

\* The end of the scenario: the item deleted, the purchase back at total 0
\* and final 5.00, and the customer at 5.00 again.
C22_Witness ==
    /\ req[1].kind = "destroyItem" /\ req[1].result = "ok"
    /\ ScenarioPurchase(1, 0) /\ DOMAIN items = {}
    /\ customers[1].totalSpent = 500

\* The step changes no purchase, no item and no customer's statistics.
LedgerUntouched ==
    /\ purchases' = purchases /\ items' = items
    /\ \A c \in DOMAIN customers :
          /\ c \in DOMAIN customers'
          /\ customers'[c].totalPurchases = customers[c].totalPurchases
          /\ customers'[c].totalSpent = customers[c].totalSpent
          /\ customers'[c].lastPurchaseDate = customers[c].lastPurchaseDate

\* C23: updateCustomer and deleteCustomer leave every purchase and every
\* item as it was, and leave the totalPurchases, totalSpent and
\* lastPurchaseDate of every customer as they were (the step of such a
\* request is the one that leaves its kind on record).
C23_CustomerMutationsStayPut ==
    [][req'[1].kind \in {"updateCustomer", "deleteCustomer"} => LedgerUntouched]_vars

\* A customer who has spent on a purchase was renamed or deactivated.
C23_Witness ==
    /\ req[1].kind \in {"updateCustomer", "deleteCustomer"}
    /\ req[1].result = "ok" /\ req[1].wrote = {"customers"}
    /\ customers[1].totalSpent > 0 /\ customers[1].totalPurchases = 1
    /\ DOMAIN purchases # {}

RECURSIVE FinalAmountChange(_)
FinalAmountChange(ps) ==
    IF ps = {} THEN 0
    ELSE LET p == CHOOSE x \in ps : TRUE
         IN (purchases'[p].final_amount - purchases[p].final_amount)
                + FinalAmountChange(ps \ {p})

\* The step sent an UPDATE to the purchases table.
PurchaseRewritten == "purchases" \in req'[1].wrote

\* C24: a request that rewrites a purchase changes the owning customer's
\* totalSpent by the new final_amount minus the final_amount stored before
\* the rewrite, and writes nothing to the customer when final_amount is
\* unchanged.
C24_DeltaOnRewrite ==
    [][PurchaseRewritten
       => /\ \A c \in DOMAIN customers :
               customers'[c].totalSpent =
                   customers[c].totalSpent
                       + FinalAmountChange(PurchasesOf(c, purchases) \cap DOMAIN purchases')
          /\ (\A p \in DOMAIN purchases \cap DOMAIN purchases' :
                  purchases'[p].final_amount = purchases[p].final_amount)
               => "customers" \notin req'[1].wrote]_vars

\* C25: the customer write that follows a change of a purchase's
\* final_amount (Purchase.afterUpdate, reached from an item request or from
\* a tax/discount edit) leaves every customer's totalPurchases and
\* lastPurchaseDate as they were, whatever the other request is doing.
C25_DeltaTouchesOnlyTotalSpent ==
    [][\A s \in Slots :
          (CustUpdate(s) /\ req[s].hook = "afterUpdate")
          => \A c \in DOMAIN customers :
                /\ customers'[c].totalPurchases = customers[c].totalPurchases
                /\ customers'[c].lastPurchaseDate = customers[c].lastPurchaseDate]_vars

\* An item request or a tax edit has moved the customer's totalSpent.
C25_Witness ==
    \E s \in Slots :
        /\ req[s].kind \in ItemKinds \cup {"updatePurchase"}
        /\ req[s].pc = "done" /\ req[s].result = "ok"
        /\ "customers" \in req[s].wrote
        /\ customers[1].totalSpent # ConcCustomer.totalSpent
        /\ customers[1].totalPurchases = ConcCustomer.totalPurchases
        /\ customers[1].lastPurchaseDate = ConcCustomer.lastPurchaseDate

\* C26: once an item update that moved an item to another purchase has
\* finished, with no other request in flight, the total_amount of every
\* purchase (the one the item left and the one it joined) is the sum of the
\* subtotals of the items it owns.
C26_MoveReaggregatesBoth ==
    \A s \in Slots :
        (/\ req[s].kind = "updateItem" /\ req[s].pc = "done" /\ req[s].result = "ok"
         /\ \A t \in Slots \ {s} : req[t].kind = "none"
         /\ req[s].iid \in DOMAIN items
         /\ items[req[s].iid].purchase_id # ConcItem.purchase_id)
        => \A p \in DOMAIN purchases :
              purchases[p].total_amount = TotalAmount(p, items)

\* The place of a query in the chain item -> purchase -> customer.
ChainRank(pc) ==
    CASE pc \in {"itemSave", "itemDestroy", "purDestroy"} -> 1
      [] pc = "purFind" -> 2
      [] pc = "itemsFind" -> 3
      [] pc = "purSave" -> 4
      [] pc = "custFind" -> 5
      [] pc = "custUpdate" -> 6
      [] OTHER -> 7

\* C27: a started request only moves down the chain item, purchase,
\* customer (after the customer write it has returned; after the purchase
\* write it never comes back to the items), and every started request
\* returns.
C27_ChainOrderedAndFinite ==
    /\ [][\A s \in Slots :
             (req[s].pc # "done" /\ req'[s] # req[s])
             => /\ ChainRank(req'[s].pc) > ChainRank(req[s].pc)
                /\ req[s].pc = "custUpdate" => req'[s].pc = "done"
                /\ req[s].pc \in {"purSave", "custFind", "custUpdate"} => items' = items
                /\ req[s].pc \in {"custFind", "custUpdate"} => purchases' = purchases]_vars
    /\ \A s \in Slots : (req[s].pc # "done") ~> (req[s].pc = "done")

\* An item request has returned after writing the purchase and the customer.
C27_Witness ==
    \E s \in Slots :
        /\ req[s].kind \in ItemKinds /\ req[s].pc = "done" /\ req[s].result = "ok"
        /\ req[s].wrote = {"purchases", "customers"}

\* C29: in every reachable state every purchase item references a stored
\* purchase and every purchase a stored customer; a deleted purchase takes its
\* items with it, and no row is left orphaned.
C29_NoOrphans ==
    /\ \A i \in DOMAIN items : items[i].purchase_id \in DOMAIN purchases
    /\ \A p \in DOMAIN purchases : purchases[p].customer_id \in DOMAIN customers

\* Purchase 1, which owned two items, has been deleted.
C29_Witness ==
    \E s \in Slots :
        /\ req[s].kind = "destroyPurchase" /\ req[s].pc = "done" /\ req[s].result = "ok"
        /\ \A t \in Slots \ {s} : req[t].kind = "none"
        /\ req[s].pid = 1 /\ 1 \notin DOMAIN purchases
        /\ items = <<>>

\* The values the entries of a body give to variant v, and the last of them.
StocksFor(body, v) ==
    {ParseInt(body[k].newStock) : k \in {j \in DOMAIN body : body[j].variantId = v}}

LastStockFor(body, v) ==
    LET ks == {j \in DOMAIN body : body[j].variantId = v}
    IN ParseInt(body[CHOOSE k \in ks : \A j \in ks : j <= k].newStock)

\* C28: for any interleaving of two bulk stock updates, once both have
\* finished, a variant both have an entry for is in stock at the newStock of
\* one of these entries, and a variant only one of them has entries for is
\* in stock at the value that request gave it.
C28_ConcurrentBulkStock ==
    (\A s \in Slots : /\ req[s].kind = "bulkUpdateStock"
                      /\ req[s].pc = "done" /\ req[s].result = "ok")
    => \A v \in DOMAIN variants :
          /\ (StocksFor(req[1].body, v) # {} /\ StocksFor(req[2].body, v) # {})
                => variants[v].stock \in
                      StocksFor(req[1].body, v) \cup StocksFor(req[2].body, v)
          /\ \A s \in Slots :
                (/\ StocksFor(req[s].body, v) # {}
                 /\ \A t \in Slots \ {s} : StocksFor(req[t].body, v) = {})
                => variants[v].stock = LastStockFor(req[s].body, v)

\* Both requests set variant 1, to 2 and to 1, and the first also sets
\* variant 2; both have finished.
C28_Witness ==
    /\ \A s \in Slots : /\ req[s].kind = "bulkUpdateStock"
                        /\ req[s].pc = "done" /\ req[s].result = "ok"
    /\ StocksFor(req[1].body, 1) = {2} /\ StocksFor(req[2].body, 1) = {1}
    /\ StocksFor(req[1].body, 2) = {2} /\ StocksFor(req[2].body, 2) = {}
    /\ variants[1].stock = 2 /\ variants[2].stock = 2

====
